---- MODULE Spec2Model ----
(***************************************************************************)
(* Model of src/models/odefunc.py: the ODE state functions (ODEfunc,       *)
(* ODEhyperfunc, ODEhyperfunc2D), the hypernetwork drift networks          *)
(* (ODEHypernet, ODEHypernet2D), the drift network builder (ODEnet) and    *)
(* the stochastic divergence estimator (divergence_approx).                *)
(*                                                                         *)
(* Tensors are abstracted to what the code's control flow depends on:      *)
(* the width of their last dimension and, for results, which expression    *)
(* produced them.  The batch dimension is common to all channels of one    *)
(* call (y.size(0)) and is left out.                                       *)
(***************************************************************************)
EXTENDS Integers, Sequences, FiniteSets, TLC

VARIABLES
    self,       \* the constructed ODE state function: kind and constructor flags
    e,          \* the attribute _e: unset, None, or a noise tensor
    num_evals,  \* the buffer _num_evals
    op,         \* the operation that produced the current state
    calls,      \* forward calls since construction or the last before_odeint
    nonEmpty,   \* those of them that were given a non-empty state tuple
    given,      \* the argument of the last before_odeint (unset before the first)
    used,       \* noise tensors handed to divergence_approx since the last before_odeint
    firstSample,\* the first noise tensor sampled by forward since the last before_odeint
    last,       \* the last forward call: its input and its outcome
    hn,         \* an ODEHypernet / ODEHypernet2D call: constructor and call inputs, result
    net,        \* an ODEnet: constructor inputs, the built layers, the forward trace
    dv          \* one divergence_approx call in progress

vars == <<self, e, num_evals, op, calls, nonEmpty, given, used, firstSample, last, hn, net, dv>>

----------------------------------------------------------------------------
(* Bounds of the model *)

MaxChannels == 5    \* longest state tuple handed to forward
MaxWidth == 2       \* widest position / auxiliary channel
MaxNoise == 2       \* distinct noise vectors
MaxCalls == 3       \* forward calls between two before_odeint calls

(* Program constants *)

F32ExactLimit == 16777216   \* 2^24: torch.tensor(0.) is float32; x + 1 = x from here on
MaxRetries == 10            \* `cnt < 10` in divergence_approx

----------------------------------------------------------------------------
(* Values *)

Unset == [tag |-> "unset", id |-> 0, w |-> 0]    \* no attribute _e on the module
NoneE == [tag |-> "None", id |-> 0, w |-> 0]     \* _e is None
NoiseE(i, w) == [tag |-> "tensor", id |-> i, w |-> w]

NoiseVals == {NoiseE(i, w) : i \in 1..MaxNoise, w \in 1..MaxWidth}

Tensor(w, v) == [w |-> w, v |-> v]

\* The state tuples forward is called with.  Channel 1 is the position
\* (width d), channel 2 the log-density accumulator (batch, 1), channels 3..
\* auxiliary channels of pairwise distinct widths c, c+1, ...
ChannelWidth(k, d, c) ==
    IF k = 1 THEN d ELSE IF k = 2 THEN 1 ELSE c + (k - 3)

StateTuple(n, d, c) == [k \in 1..n |-> ChannelWidth(k, d, c)]

StateTuples ==
    {StateTuple(n, d, c) : n \in 0..MaxChannels, d \in 1..MaxWidth, c \in 1..MaxWidth}

----------------------------------------------------------------------------
(* divergence_approx as a function of the gradient calls' outcomes.        *)
(* The k-th gradient call (k = 1 is the call before the loop) yields a     *)
(* product e_dzdx_e with gradient history iff k >= firstGood.              *)

RequiresGrad(firstGood, k) == k >= firstGood

\* a loop that retries whether or not the result has gradient history
RetryRegardless(rg, cnt) == cnt < MaxRetries

\* line 14: while not e_dzdx_e.requires_grad and cnt < 10
RetryGuard(rg, cnt) == ~rg /\ cnt < MaxRetries

\* the loop of lines 13-20: the number of retries made
RECURSIVE RetryCount(_, _)
RetryCount(firstGood, cnt) ==
    IF RetryGuard(RequiresGrad(firstGood, cnt + 1), cnt)
    THEN RetryCount(firstGood, cnt + 1)
    ELSE cnt

\* lines 9-27: "ok" when the estimate is returned, "AssertionError" otherwise;
\* torch.autograd.grad rejects a grad_outputs e whose shape differs from f's
divergence_approx(fw, ev, firstGood) ==
    IF ev.w # fw THEN "RuntimeError"
    ELSE IF RequiresGrad(firstGood, RetryCount(firstGood, 0) + 1) THEN "ok"
    ELSE "AssertionError"

\* lines 30-35: one gradient call per dimension, no assertion
divergence_bf(fw) == "ok"

----------------------------------------------------------------------------
(* The evaluation counter *)

\* a forward that forgets to count
IncEvalsDropped(n) == n

\* line 127: self._num_evals += 1 on a float32 buffer
IncEvals(n) == IF n < F32ExactLimit THEN n + 1 ELSE n

\* line 121: self._num_evals.fill_(0)
ResetEvals(n) == 0

----------------------------------------------------------------------------
(* forward: the outcome of one call *)

Raised(states, err, sampled) ==
    [states |-> states, status |-> "raised", error |-> err, out |-> << >>,
     branch |-> "none", sampled |-> sampled]

RaisedIn(states, err, sampled, branch) ==
    [states |-> states, status |-> "raised", error |-> err, out |-> << >>,
     branch |-> branch, sampled |-> sampled]

Returned(states, out, sampled, branch) ==
    [states |-> states, status |-> "returned", error |-> "none", out |-> out,
     branch |-> branch, sampled |-> sampled]

NoCall ==
    [states |-> << >>, status |-> "none", error |-> "none", out |-> << >>,
     branch |-> "none", sampled |-> FALSE]

\* a forward that draws new noise on every call
SampleAlways(ev, sample, yw) == NoiseE(sample, yw)

\* lines 132-133: keep a fixed _e, sample one shaped like y when it is None
SampleIfNone(ev, sample, yw) == IF ev = NoneE THEN NoiseE(sample, yw) ELSE ev

\* line 141 / 188 / 271: torch.zeros_like(c)
ZerosLike(w) == Tensor(w, "zeros")

----------------------------------------------------------------------------
(* ODEfunc.forward, lines 123-147.  ev, n: the fields _e and _num_evals    *)
(* before the call; states: the widths of the state tuple; sample: the     *)
(* vector randn_like draws; diffeqOk: whether self.diffeq returns;         *)
(* firstGood: the first gradient call that yields gradient history.        *)

\* a dispatch that takes every longer tuple for a conditional one
FuncBranchAtLeast(len) ==
    IF len >= 3 THEN "conditional"
    ELSE IF len = 2 THEN "unconditional"
    ELSE "unsupported"

\* lines 136-147: the dispatch on len(states)
FuncBranch(len) ==
    IF len = 3 THEN "conditional"
    ELSE IF len = 2 THEN "unconditional"
    ELSE "unsupported"

ForwardODEfunc(ev, n, states, sample, diffeqOk, firstGood) ==
    IF Len(states) = 0
    THEN \* line 124: states[0] raises before anything is touched
         [e |-> ev, n |-> n, call |-> Raised(states, "IndexError", FALSE), passed |-> {}]
    ELSE
    LET yw == states[1]
        n1 == IncEvals(n)
    IN  IF ev = Unset
        THEN \* line 132: the module has no attribute _e
             [e |-> ev, n |-> n1, call |-> Raised(states, "AttributeError", FALSE),
              passed |-> {}]
        ELSE
        LET e1 == SampleIfNone(ev, sample, yw)
            sampled == (ev = NoneE)
            br == FuncBranch(Len(states))
            div == divergence_approx(yw, e1, firstGood)
        IN  IF br = "unsupported"
            THEN \* line 147: assert 0
                 [e |-> e1, n |-> n1, passed |-> {},
                  call |-> RaisedIn(states, "AssertionError", sampled, br)]
            ELSE IF ~diffeqOk
            THEN \* line 139 / 143: self.diffeq raises
                 [e |-> e1, n |-> n1, passed |-> {},
                  call |-> RaisedIn(states, "DiffeqError", sampled, br)]
            ELSE IF div # "ok"
            THEN \* line 140 / 144: the divergence estimator raises
                 [e |-> e1, n |-> n1, passed |-> {e1},
                  call |-> RaisedIn(states, div, sampled, br)]
            ELSE IF br = "conditional"
            THEN \* line 141
                 [e |-> e1, n |-> n1, passed |-> {e1},
                  call |-> Returned(states,
                              <<Tensor(yw, "dy"), Tensor(1, "negdiv"),
                                ZerosLike(states[3])>>,
                              sampled, br)]
            ELSE \* line 145
                 [e |-> e1, n |-> n1, passed |-> {e1},
                  call |-> Returned(states,
                              <<Tensor(yw, "dy"), Tensor(1, "negdiv")>>,
                              sampled, br)]

(* ODEhyperfunc.forward, lines 162-188.  training: nn.Module's mode flag;  *)
(* approxTrain, approxTest: the constructor's use_div_approx_* flags.      *)

ForwardODEhyperfunc(ev, n, states, sample, diffeqOk, firstGood, training, approxTrain, approxTest) ==
    IF Len(states) = 0
    THEN [e |-> ev, n |-> n, call |-> Raised(states, "IndexError", FALSE), passed |-> {}]
    ELSE
    LET yw == states[1]
        n1 == IncEvals(n)
    IN  IF ev = Unset
        THEN [e |-> ev, n |-> n1, call |-> Raised(states, "AttributeError", FALSE),
              passed |-> {}]
        ELSE
        LET e1 == SampleIfNone(ev, sample, yw)
            sampled == (ev = NoneE)
            approx == IF training THEN approxTrain ELSE approxTest
            div == IF approx THEN divergence_approx(yw, e1, firstGood)
                   ELSE divergence_bf(yw)
            passed == IF approx THEN {e1} ELSE {}
        IN  IF Len(states) < 3
            THEN \* line 174: c = states[2]
                 [e |-> e1, n |-> n1, passed |-> {},
                  call |-> Raised(states, "IndexError", sampled)]
            ELSE IF ~diffeqOk
            THEN [e |-> e1, n |-> n1, passed |-> {},
                  call |-> RaisedIn(states, "DiffeqError", sampled, "hyper")]
            ELSE IF div # "ok"
            THEN [e |-> e1, n |-> n1, passed |-> passed,
                  call |-> RaisedIn(states, div, sampled, "hyper")]
            ELSE [e |-> e1, n |-> n1, passed |-> passed,
                  call |-> Returned(states,
                              <<Tensor(yw, "dy"), Tensor(1, "negdiv"),
                                ZerosLike(states[3])>>,
                              sampled, "hyper")]

(* ODEhyperfunc2D.forward, lines 255-271 *)

ForwardODEhyperfunc2D(ev, n, states, sample, diffeqOk, firstGood) ==
    IF Len(states) = 0
    THEN [e |-> ev, n |-> n, call |-> Raised(states, "IndexError", FALSE), passed |-> {}]
    ELSE
    LET yw == states[1]
        n1 == IncEvals(n)
    IN  IF ev = Unset
        THEN [e |-> ev, n |-> n1, call |-> Raised(states, "AttributeError", FALSE),
              passed |-> {}]
        ELSE
        LET e1 == SampleIfNone(ev, sample, yw)
            sampled == (ev = NoneE)
            div == divergence_approx(yw, e1, firstGood)
        IN  IF Len(states) < 4
            THEN \* line 267 / 268: states[2], states[3]
                 [e |-> e1, n |-> n1, passed |-> {},
                  call |-> Raised(states, "IndexError", sampled)]
            ELSE IF ~diffeqOk
            THEN [e |-> e1, n |-> n1, passed |-> {},
                  call |-> RaisedIn(states, "DiffeqError", sampled, "hyper2D")]
            ELSE IF div # "ok"
            THEN [e |-> e1, n |-> n1, passed |-> {e1},
                  call |-> RaisedIn(states, div, sampled, "hyper2D")]
            ELSE [e |-> e1, n |-> n1, passed |-> {e1},
                  call |-> Returned(states,
                              <<Tensor(yw, "dy"), Tensor(1, "negdiv"),
                                ZerosLike(states[3]), ZerosLike(states[4])>>,
                              sampled, "hyper2D")]

----------------------------------------------------------------------------
(* The ODE state function as a state machine *)

\* what forward's collaborators do in one call: <<whether self.diffeq
\* returns, the first gradient call that yields gradient history>>; history
\* at the first call, at the last retry, or never
Collaborators ==
    {<<TRUE, 1>>, <<TRUE, MaxRetries + 1>>, <<TRUE, MaxRetries + 2>>, <<FALSE, 1>>}

\* line 133 draws a vector only when _e is None
Samples(ev) == IF ev = NoneE THEN 1..MaxNoise ELSE {1}

\* the other components at rest
HnIdle == [phase |-> "idle"]
NetIdle == [phase |-> "idle"]
DvIdle == [pc |-> "idle"]

\* __init__ of the three classes (lines 113-117, 151-156, 245-249): no _e,
\* the counter at 0
Init ==
    /\ self \in
         {[kind |-> "ODEfunc", use_div_approx_train |-> TRUE, use_div_approx_test |-> TRUE],
          [kind |-> "ODEhyperfunc2D", use_div_approx_train |-> TRUE,
           use_div_approx_test |-> TRUE]}
         \cup {[kind |-> "ODEhyperfunc", use_div_approx_train |-> a,
                use_div_approx_test |-> b] : a \in BOOLEAN, b \in BOOLEAN}
    /\ e = Unset
    /\ num_evals = 0
    /\ op = "construct"
    /\ calls = 0
    /\ nonEmpty = 0
    /\ given = Unset
    /\ used = {}
    /\ firstSample = Unset
    /\ last = NoCall
    /\ hn = HnIdle
    /\ net = NetIdle
    /\ dv = DvIdle

\* the state change of a forward call with outcome r
ApplyForward(r) ==
    /\ e' = r.e
    /\ num_evals' = r.n
    /\ op' = "forward"
    /\ calls' = calls + 1
    /\ nonEmpty' = IF Len(r.call.states) > 0 THEN nonEmpty + 1 ELSE nonEmpty
    /\ used' = used \cup r.passed
    /\ firstSample' = IF r.call.sampled /\ firstSample = Unset THEN r.e ELSE firstSample
    /\ last' = r.call
    /\ UNCHANGED <<self, given, hn, net, dv>>

\* the state change of before_odeint(ev), lines 119-121 / 158-160 / 251-253
ApplyBeforeOdeint(ev) ==
    /\ e' = ev
    /\ num_evals' = ResetEvals(num_evals)
    /\ op' = "before_odeint"
    /\ calls' = 0
    /\ nonEmpty' = 0
    /\ given' = ev
    /\ used' = {}
    /\ firstSample' = Unset
    /\ last' = NoCall
    /\ UNCHANGED <<self, hn, net, dv>>

FuncBeforeOdeint ==
    /\ self.kind = "ODEfunc"
    /\ \E ev \in {NoneE} \cup NoiseVals : ApplyBeforeOdeint(ev)

HyperfuncBeforeOdeint ==
    /\ self.kind = "ODEhyperfunc"
    /\ \E ev \in {NoneE} \cup NoiseVals : ApplyBeforeOdeint(ev)

Hyperfunc2DBeforeOdeint ==
    /\ self.kind = "ODEhyperfunc2D"
    /\ \E ev \in {NoneE} \cup NoiseVals : ApplyBeforeOdeint(ev)

FuncForward ==
    /\ self.kind = "ODEfunc"
    /\ calls < MaxCalls
    /\ \E states \in StateTuples, sample \in Samples(e), env \in Collaborators :
          ApplyForward(ForwardODEfunc(e, num_evals, states, sample, env[1], env[2]))

HyperfuncForward ==
    /\ self.kind = "ODEhyperfunc"
    /\ calls < MaxCalls
    /\ \E states \in StateTuples, sample \in Samples(e), env \in Collaborators,
          training \in BOOLEAN :
          ApplyForward(ForwardODEhyperfunc(e, num_evals, states, sample, env[1],
                                           env[2], training,
                                           self.use_div_approx_train,
                                           self.use_div_approx_test))

Hyperfunc2DForward ==
    /\ self.kind = "ODEhyperfunc2D"
    /\ calls < MaxCalls
    /\ \E states \in StateTuples, sample \in Samples(e), env \in Collaborators :
          ApplyForward(ForwardODEhyperfunc2D(e, num_evals, states, sample, env[1],
                                             env[2]))

Next ==
    \/ FuncBeforeOdeint
    \/ HyperfuncBeforeOdeint
    \/ Hyperfunc2DBeforeOdeint
    \/ FuncForward
    \/ HyperfuncForward
    \/ Hyperfunc2DForward

Spec == Init /\ [][Next]_vars

----------------------------------------------------------------------------
(* ODEHypernet and ODEHypernet2D *)

MaxDimsLen == 3     \* longest dims string, in characters
MaxInputDim == 2    \* largest input_dim and width of y
MaxShort == 2       \* how far a weights vector may fall short of the layout
MaxExtra == 2       \* how far it may exceed it

PointCols == 2      \* the `+ 2` of ODEHypernet2D: the columns of y_points

\* the characters a dims string is made of
DimsChars == {"1", "2", "-"}

DimsStrings == UNION {[1..n -> DimsChars] : n \in 0..MaxDimsLen}

\* str.split("-"): the pieces between the dashes, empty pieces included
RECURSIVE SplitDash(_, _, _)
SplitDash(str, piece, pieces) ==
    IF str = << >> THEN Append(pieces, piece)
    ELSE IF Head(str) = "-" THEN SplitDash(Tail(str), << >>, Append(pieces, piece))
    ELSE SplitDash(Tail(str), Append(piece, Head(str)), pieces)

DigitValue(c) == IF c = "1" THEN 1 ELSE 2

\* int(piece) for a piece of digits: its decimal value; -1 stands for the
\* ValueError int("") raises
RECURSIVE ParseInt(_, _)
ParseInt(piece, acc) ==
    IF piece = << >> THEN acc
    ELSE ParseInt(Tail(piece), 10 * acc + DigitValue(Head(piece)))

IntOf(piece) == IF piece = << >> THEN -1 ELSE ParseInt(piece, 0)

\* lines 203-204 / 286: [input_dim] + list(map(int, dims.split("-"))) + [input_dim]
HypernetDims(dimsStr, input_dim) ==
    LET pieces == SplitDash(dimsStr, << >>, << >>)
        widths == [k \in 1..Len(pieces) |-> IntOf(pieces[k])]
    IN  IF \E k \in 1..Len(widths) : widths[k] < 0
        THEN [ok |-> FALSE, dims |-> << >>]
        ELSE [ok |-> TRUE, dims |-> <<input_dim>> \o widths \o <<input_dim>>]

Min(a, b) == IF a <= b THEN a ELSE b
Max(a, b) == IF a >= b THEN a ELSE b

\* the number of elements the slice weights[:, i:i + n] holds when the last
\* dimension has W elements: Python slices stop at the end of the data
SliceLen(W, i, n) == Min(Max(W - i, 0), n)

\* x += b (in place) for x of width xw and b of width bw: b must broadcast to x
AddInPlaceOk(xw, bw) == bw = xw \/ bw = 1

\* the width of a + b under broadcasting, -1 when the widths do not broadcast
BroadcastWidth(aw, bw) ==
    IF aw = bw THEN aw
    ELSE IF aw = 1 THEN bw
    ELSE IF bw = 1 THEN aw
    ELSE -1

\* the rows of the weight matrix of a layer with input width din:
\* lines 212-213, and lines 293-294 where y_points adds two columns
WeightRows(twoD, din) == IF twoD THEN din + PointCols ELSE din

\* a cursor that forgets the y_points rows of the 2D weight matrix
CursorStepNoPoints(twoD, din, dout) == din * dout

\* lines 215 / 295: the cursor's advance past the weight matrix
CursorStep(twoD, din, dout) == WeightRows(twoD, din) * dout

\* One layer of forward: lines 212-240 (ODEHypernet), 293-320 (ODEHypernet2D).
\* st: the cursor i, the width of dx, the slices read so far; W: the length
\* of the weights vector; pw: the width of y_points (2D only).
HypernetLayer(st, twoD, din, dout, W, pw) ==
    LET i0 == st.i
        rows == WeightRows(twoD, din)
        i1 == i0 + CursorStep(twoD, din, dout)
        i2 == i1 + dout
        i3 == i2 + dout
        i4 == i3 + dout
        i5 == i4 + dout
        inw == IF twoD THEN st.dxw + pw ELSE st.dxw
        biasGot == SliceLen(W, i1, dout)
        bscaleGot == SliceLen(W, i3, dout)
        scalew == BroadcastWidth(dout, bscaleGot)
        r1 == Append(st.reads, [name |-> "weight", lo |-> i0, hi |-> i1])
        r2 == Append(r1, [name |-> "bias", lo |-> i1, hi |-> i2])
        r3 == Append(r2, [name |-> "weight_scales", lo |-> i2, hi |-> i3])
        r4 == Append(r3, [name |-> "bias_scales", lo |-> i3, hi |-> i4])
        r5 == Append(r4, [name |-> "weight_shift", lo |-> i4, hi |-> i5])
        fail(i, reads, what) ==
            [i |-> i, dxw |-> st.dxw, reads |-> reads, error |-> what]
    IN  IF SliceLen(W, i0, rows * dout) # rows * dout
        THEN fail(i0, r1, "view(weight)")
        ELSE IF inw # rows
        THEN fail(i1, r1, "bmm(dx, weight)")
        ELSE IF ~AddInPlaceOk(dout, biasGot)
        THEN fail(i1, r2, "dx += bias")
        ELSE IF SliceLen(W, i2, dout) # dout
        THEN fail(i2, r3, "view(weight_scales)")
        ELSE IF scalew < 0
        THEN fail(i4, r4, "+ bias_scales")
        ELSE IF BroadcastWidth(scalew, dout) < 0
        THEN fail(i4, r4, "scale * dx")
        ELSE IF SliceLen(W, i4, dout) # dout
        THEN fail(i4, r5, "view(weight_shift)")
        ELSE IF ~AddInPlaceOk(BroadcastWidth(scalew, dout), dout)
        THEN fail(i5, r5, "dx += shift")
        ELSE [i |-> i5, dxw |-> BroadcastWidth(scalew, dout), reads |-> r5,
              error |-> "none"]

\* the loop over the layers, lines 211 / 292
RECURSIVE HypernetLayers(_, _, _, _, _, _)
HypernetLayers(st, l, twoD, dims, W, pw) ==
    IF l > Len(dims) - 1 \/ st.error # "none" THEN st
    ELSE HypernetLayers(HypernetLayer(st, twoD, dims[l], dims[l + 1], W, pw),
                        l + 1, twoD, dims, W, pw)

\* ODEHypernet.forward (lines 206-241) and ODEHypernet2D.forward (lines
\* 288-321) on a y of width yw, a y_points of width pw and a weights vector
\* of W elements per sample
HypernetForward(twoD, dims, yw, pw, W) ==
    HypernetLayers([i |-> 0, dxw |-> yw, reads |-> << >>, error |-> "none"],
                   1, twoD, dims, W, pw)

\* The width of the weights vector according to the documented layout:
\* the sum over the layers l of
\*   (dims[l] (+2 for the 2D variant)) * dims[l+1] + 3 * dims[l+1] + dims[l+1]
RECURSIVE LayoutSum(_, _, _)
LayoutSum(dims, twoD, l) ==
    IF l > Len(dims) - 1 THEN 0
    ELSE (dims[l] + (IF twoD THEN 2 ELSE 0)) * dims[l + 1]
         + 3 * dims[l + 1] + dims[l + 1]
         + LayoutSum(dims, twoD, l + 1)

LayoutWidth(dims, twoD) == LayoutSum(dims, twoD, 1)

\* the weights vectors forward is tried with: empty, and around the layout width
WeightLens(dims, twoD) ==
    {0} \cup {w \in (LayoutWidth(dims, twoD) - MaxShort)..(LayoutWidth(dims, twoD) + MaxExtra) :
                w >= 0}

\* the ODE state function at rest, for the specifications of the other components
OdeIdle ==
    /\ self = [kind |-> "none", use_div_approx_train |-> TRUE, use_div_approx_test |-> TRUE]
    /\ e = Unset
    /\ num_evals = 0
    /\ op = "none"
    /\ calls = 0
    /\ nonEmpty = 0
    /\ given = Unset
    /\ used = {}
    /\ firstSample = Unset
    /\ last = NoCall

NoResult == [i |-> 0, dxw |-> 0, reads |-> << >>, error |-> "none"]

HnArgs(twoD, dimsStr, input_dim) ==
    [phase |-> "args", twoD |-> twoD, dimsStr |-> dimsStr, input_dim |-> input_dim,
     dims |-> << >>, yw |-> 0, pw |-> 0, W |-> 0, res |-> NoResult]

\* the constructor's arguments
InitHypernet ==
    /\ hn \in {HnArgs(twoD, dimsStr, input_dim) :
                 twoD \in BOOLEAN, dimsStr \in DimsStrings, input_dim \in 1..MaxInputDim}
    /\ net = NetIdle
    /\ dv = DvIdle
    /\ OdeIdle

\* what is left alone by the hypernetwork's operations
HnFrame ==
    UNCHANGED <<self, e, num_evals, op, calls, nonEmpty, given, used, firstSample,
                last, net, dv>>

\* ODEHypernet.__init__, lines 196-204: the object exists unless int() raised
HypernetInit ==
    /\ hn.phase = "args"
    /\ ~hn.twoD
    /\ LET d == HypernetDims(hn.dimsStr, hn.input_dim)
       IN  hn' = [hn EXCEPT !.phase = IF d.ok THEN "built" ELSE "ValueError",
                            !.dims = d.dims]
    /\ HnFrame

\* ODEHypernet2D.__init__, lines 279-286
Hypernet2DInit ==
    /\ hn.phase = "args"
    /\ hn.twoD
    /\ LET d == HypernetDims(hn.dimsStr, hn.input_dim)
       IN  hn' = [hn EXCEPT !.phase = IF d.ok THEN "built" ELSE "ValueError",
                            !.dims = d.dims]
    /\ HnFrame

\* ODEHypernet.forward, lines 206-241, on the constructed network
HypernetCall ==
    /\ hn.phase = "built"
    /\ ~hn.twoD
    /\ \E yw \in 1..MaxInputDim, W \in WeightLens(hn.dims, FALSE) :
          hn' = [hn EXCEPT !.phase = "done", !.yw = yw, !.W = W,
                           !.res = HypernetForward(FALSE, hn.dims, yw, 0, W)]
    /\ HnFrame

\* ODEHypernet2D.forward, lines 288-321
Hypernet2DCall ==
    /\ hn.phase = "built"
    /\ hn.twoD
    /\ \E yw \in 1..MaxInputDim, pw \in 1..MaxInputDim, W \in WeightLens(hn.dims, TRUE) :
          hn' = [hn EXCEPT !.phase = "done", !.yw = yw, !.pw = pw, !.W = W,
                           !.res = HypernetForward(TRUE, hn.dims, yw, pw, W)]
    /\ HnFrame

NextHypernet ==
    \/ HypernetInit
    \/ Hypernet2DInit
    \/ HypernetCall
    \/ Hypernet2DCall

SpecHypernet == InitHypernet /\ [][NextHypernet]_vars

----------------------------------------------------------------------------
(* ODEnet *)

MaxHidden == 2        \* most hidden layers
MaxHiddenWidth == 2   \* widest hidden layer
MaxContextDim == 1    \* largest context_dim

\* the keys of base_layer, lines 75-81, and of NONLINEARITIES, lines 57-63
LayerTypes ==
    {"ignore", "squash", "scale", "concat", "concat_v2", "concatsquash", "concatscale"}

Nonlinearities == {"tanh", "relu", "softplus", "elu", "swish", "square", "identity"}

HiddenDims == UNION {[1..n -> 1..MaxHiddenWidth] : n \in 0..MaxHidden}

\* the loop of lines 89-97: one layer and one activation per output width,
\* each layer reading the width the one before it wrote
RECURSIVE BuildLayers(_, _, _, _, _)
BuildLayers(outs, hidden, context_dim, nonlinearity, built) ==
    IF outs = << >> THEN built
    ELSE BuildLayers(Tail(outs), Head(outs), context_dim, nonlinearity,
                     [layers |-> Append(built.layers,
                                        [in |-> hidden, out |-> Head(outs),
                                         ctx |-> context_dim]),
                      acts |-> Append(built.acts, nonlinearity)])

\* line 100: activation_fns[:-1]
AllButLast(acts) == SubSeq(acts, 1, Len(acts) - 1)

\* ODEnet.__init__, lines 72-100
ODEnetInit(hidden_dims, D, context_dim, layer_type, nonlinearity) ==
    IF layer_type \notin LayerTypes
    THEN [error |-> "KeyError(layer_type)", layers |-> << >>, acts |-> << >>]
    ELSE IF nonlinearity \notin Nonlinearities
    THEN [error |-> "KeyError(nonlinearity)", layers |-> << >>, acts |-> << >>]
    ELSE LET built == BuildLayers(hidden_dims \o <<D>>, D, context_dim, nonlinearity,
                                  [layers |-> << >>, acts |-> << >>])
         IN  [error |-> "none", layers |-> built.layers, acts |-> AllButLast(built.acts)]

\* a forward that puts a nonlinearity after the last layer too
ActivationAfterEvery(l, nLayers) == l < nLayers

\* line 107: if l < len(self.layers) - 1, with l counted from 0
ActivationAfter(l, nLayers) == l < nLayers - 1

\* ODEnet.forward, lines 102-109, from layer l (counted from 0) on: st is the
\* width of dx and the trace of what was applied
RECURSIVE ODEnetLayers(_, _, _, _)
ODEnetLayers(st, l, layers, acts) ==
    IF l >= Len(layers) \/ st.error # "none" THEN st
    ELSE IF st.dxw # layers[l + 1].in
    THEN [st EXCEPT !.error = "RuntimeError"]
    ELSE LET applied == [dxw |-> layers[l + 1].out,
                         trace |-> Append(st.trace, [what |-> "layer", l |-> l]),
                         error |-> "none"]
         IN  IF ~ActivationAfter(l, Len(layers))
             THEN ODEnetLayers(applied, l + 1, layers, acts)
             ELSE IF l >= Len(acts)
             THEN [applied EXCEPT !.error = "IndexError"]
             ELSE ODEnetLayers([applied EXCEPT
                                   !.trace = Append(applied.trace,
                                                    [what |-> "act", l |-> l])],
                               l + 1, layers, acts)

ODEnetForward(yw, layers, acts) ==
    ODEnetLayers([dxw |-> yw, trace |-> << >>, error |-> "none"], 0, layers, acts)

NoTrace == [dxw |-> 0, trace |-> << >>, error |-> "none"]

NetArgs(hidden_dims, D, context_dim, layer_type, nonlinearity) ==
    [phase |-> "args", hidden_dims |-> hidden_dims, D |-> D, context_dim |-> context_dim,
     layer_type |-> layer_type, nonlinearity |-> nonlinearity,
     layers |-> << >>, acts |-> << >>, yw |-> 0, res |-> NoTrace]

\* the constructor's arguments, among them keys the tables do not hold
InitODEnet ==
    /\ net \in {NetArgs(h, D, c, lt, nl) :
                  h \in HiddenDims, D \in 1..MaxInputDim, c \in 0..MaxContextDim,
                  lt \in LayerTypes \cup {"other"}, nl \in Nonlinearities \cup {"other"}}
    /\ hn = HnIdle
    /\ dv = DvIdle
    /\ OdeIdle

NetFrame ==
    UNCHANGED <<self, e, num_evals, op, calls, nonEmpty, given, used, firstSample,
                last, hn, dv>>

ODEnetConstruct ==
    /\ net.phase = "args"
    /\ LET r == ODEnetInit(net.hidden_dims, net.D, net.context_dim, net.layer_type,
                           net.nonlinearity)
       IN  net' = [net EXCEPT !.phase = IF r.error = "none" THEN "built" ELSE r.error,
                              !.layers = r.layers, !.acts = r.acts]
    /\ NetFrame

ODEnetCall ==
    /\ net.phase = "built"
    /\ \E yw \in 1..MaxInputDim :
          net' = [net EXCEPT !.phase = "done", !.yw = yw,
                             !.res = ODEnetForward(yw, net.layers, net.acts)]
    /\ NetFrame

NextODEnet ==
    \/ ODEnetConstruct
    \/ ODEnetCall

SpecODEnet == InitODEnet /\ [][NextODEnet]_vars

----------------------------------------------------------------------------
(* divergence_approx, lines 9-27, statement by statement.  Each gradient   *)
(* call yields an e_dzdx that has gradient history or not; the product     *)
(* e_dzdx * e has it when either factor has.                               *)

\* the arguments of one call: the widths of f and e, whether f, y and e
\* carry gradient history
DvStart(fw, ew, fRg, yRg, eRg) ==
    [pc |-> "start", fw |-> fw, ew |-> ew, fRg |-> fRg, yRg |-> yRg, eRg |-> eRg,
     cnt |-> 0, grads |-> 0, rg |-> FALSE, error |-> "none"]

InitDiv ==
    /\ dv \in {DvStart(fw, ew, fRg, yRg, eRg) :
                 fw \in 1..MaxWidth, ew \in 1..MaxWidth,
                 fRg \in BOOLEAN, yRg \in BOOLEAN, eRg \in BOOLEAN}
    /\ hn = HnIdle
    /\ net = NetIdle
    /\ OdeIdle

DvFrame ==
    UNCHANGED <<self, e, num_evals, op, calls, nonEmpty, given, used, firstSample,
                last, hn, net>>

\* lines 10-13: the first gradient call; torch.autograd.grad raises for an
\* f or a y without gradient history and for an e not shaped like f
DivFirstGrad ==
    /\ dv.pc = "start"
    /\ \E dzdxRg \in BOOLEAN :
          dv' = IF ~dv.fRg \/ ~dv.yRg \/ dv.ew # dv.fw
                THEN [dv EXCEPT !.pc = "raised", !.error = "RuntimeError"]
                ELSE [dv EXCEPT !.pc = "loop", !.grads = 1, !.cnt = 0,
                                !.rg = dzdxRg \/ dv.eRg]
    /\ DvFrame

\* lines 14-20: one retry
DivRetry ==
    /\ dv.pc = "loop"
    /\ RetryGuard(dv.rg, dv.cnt)
    /\ \E dzdxRg \in BOOLEAN :
          dv' = [dv EXCEPT !.grads = dv.grads + 1, !.cnt = dv.cnt + 1,
                           !.rg = dzdxRg \/ dv.eRg]
    /\ DvFrame

\* lines 22-27: the sum keeps the product's gradient history; assert, return
DivFinish ==
    /\ dv.pc = "loop"
    /\ ~RetryGuard(dv.rg, dv.cnt)
    /\ dv' = IF dv.rg
             THEN [dv EXCEPT !.pc = "returned"]
             ELSE [dv EXCEPT !.pc = "raised", !.error = "AssertionError"]
    /\ DvFrame

NextDiv ==
    \/ DivFirstGrad
    \/ DivRetry
    \/ DivFinish

\* the call runs on one thread and no statement of it blocks
SpecDiv == InitDiv /\ [][NextDiv]_vars /\ WF_vars(NextDiv)

----------------------------------------------------------------------------
(* Claims about the ODE state functions, checked under Spec *)

\* the state tuple lengths each class is written for
Supported(kind, len) ==
    \/ kind = "ODEfunc" /\ len \in {2, 3}
    \/ kind = "ODEhyperfunc" /\ len = 3
    \/ kind = "ODEhyperfunc2D" /\ len = 4

C2_FreshForwardWellDefined ==
    (op = "forward" /\ given = Unset /\ calls = 1
        /\ Supported(self.kind, Len(last.states)))
    => /\ last.sampled
       /\ e \in NoiseVals
       /\ last.error \notin {"AttributeError", "IndexError"}

\* C3: between two before_odeint calls every forward hands the same noise
\* vector to the estimator: the one before_odeint was given, else the first
\* one forward sampled; forward never replaces a noise vector that is set,
\* and only before_odeint changes or clears one.
NoisePinned ==
    /\ Cardinality(used) <= 1
    /\ e \in NoiseVals => used \subseteq {e}
    /\ given \in NoiseVals => e = given /\ firstSample = Unset
    /\ (given = NoneE /\ firstSample # Unset) => e = firstSample
    /\ (given = NoneE /\ firstSample = Unset) => e = NoneE /\ used = {}

C3_NoiseFixedBetweenResets ==
    [][ /\ NoisePinned /\ NoisePinned'
        /\ (op' = "forward" /\ e \in NoiseVals) => e' = e
        /\ (op' = "forward" /\ e' # e) => (e = NoneE /\ last'.sampled /\ e' \in NoiseVals)
        /\ (e \in NoiseVals /\ e' # e) => op' = "before_odeint" ]_vars

\* C3 witness: after before_odeint(None), a second successful forward that
\* reused the vector the first one sampled
C3_Witness ==
    /\ given = NoneE
    /\ calls >= 2
    /\ last.status = "returned"
    /\ ~last.sampled
    /\ used = {firstSample}
    /\ e = firstSample

\* C4, as stated: whenever forward returns, the derivative tuple is as long
\* as the state tuple and in its order: position derivative, log-density
\* derivative, then the auxiliary channels' derivatives.
C4_ResultMatchesStateTuple ==
    last.status = "returned" =>
        /\ Len(last.out) = Len(last.states)
        /\ last.out[1] = Tensor(last.states[1], "dy")
        /\ last.out[2].v = "negdiv"
        /\ \A k \in 3..Len(last.out) : last.out[k].v = "zeros"

\* C5, as stated: whenever forward returns for a 3- or 4-channel state
\* tuple, the derivative of the context channel, and for 4 channels also
\* that of the hypernetwork-weights channel, is the zero tensor shaped like
\* the input channel.
C5_AuxiliaryDerivativesZero ==
    (last.status = "returned" /\ Len(last.states) \in {3, 4}) =>
        \A k \in 3..Len(last.states) :
            /\ k <= Len(last.out)
            /\ last.out[k] = ZerosLike(last.states[k])

\* C6: ODEfunc.forward returns only for state tuples of length 2 or 3, by
\* the unconditional and the conditional branch respectively; every other
\* length raises at that call and nothing is returned.
C6_FuncDispatch ==
    (op = "forward" /\ self.kind = "ODEfunc") =>
        LET len == Len(last.states) IN
        /\ len \notin {2, 3} => last.status = "raised" /\ last.out = << >>
        /\ last.status = "returned" =>
              /\ len \in {2, 3}
              /\ Len(last.out) = len
        /\ last.branch = "conditional" => len = 3
        /\ last.branch = "unconditional" => len = 2
        /\ (len > 0 /\ given # Unset) =>
              /\ len = 3 => last.branch = "conditional"
              /\ len = 2 => last.branch = "unconditional"
              /\ len \notin {2, 3} =>
                    last.branch = "unsupported" /\ last.error = "AssertionError"
        /\ len = 0 => last.error = "IndexError"

\* C6 witness: a 4-channel tuple rejected by the assertion
C6_Witness ==
    /\ op = "forward"
    /\ self.kind = "ODEfunc"
    /\ Len(last.states) = 4
    /\ last.error = "AssertionError"
    /\ last.branch = "unsupported"

----------------------------------------------------------------------------
(* Claims about ODEHypernet and ODEHypernet2D, checked under SpecHypernet *)

SegmentNames == <<"weight", "bias", "weight_scales", "bias_scales", "weight_shift">>

\* C7: when a forward pass completes, the cursor ends at the layout width
\* of dims = [input_dim] + hidden widths + [input_dim], and the slices read
\* are five per layer, in the order weight, bias, weight-scale, bias-scale,
\* shift, each starting where the one before ended, the first at 0.
C7_CursorEndsAtLayoutWidth ==
    (hn.phase = "done" /\ hn.res.error = "none") =>
        LET reads == hn.res.reads IN
        /\ hn.dims[1] = hn.input_dim
        /\ hn.dims[Len(hn.dims)] = hn.input_dim
        /\ \A k \in 1..Len(hn.dims) : hn.dims[k] > 0
        /\ hn.res.i = LayoutWidth(hn.dims, hn.twoD)
        /\ Len(reads) = 5 * (Len(hn.dims) - 1)
        /\ reads[1].lo = 0
        /\ reads[Len(reads)].hi = hn.res.i
        /\ \A k \in 1..Len(reads) :
              /\ reads[k].name = SegmentNames[((k - 1) % 5) + 1]
              /\ reads[k].lo < reads[k].hi
              /\ k > 1 => reads[k].lo = reads[k - 1].hi

\* C7 witness: a completed pass of the 2D network with two hidden layers
C7_Witness ==
    /\ hn.phase = "done"
    /\ hn.res.error = "none"
    /\ hn.twoD
    /\ Len(hn.dims) = 4
    /\ hn.res.i = hn.W

\* C8, as stated: forward returns a drift only when the weights vector is
\* exactly as long as the layout; a shorter or a longer one raises.
C8_LengthMismatchRaises ==
    (hn.phase = "done" /\ hn.W # LayoutWidth(hn.dims, hn.twoD)) =>
        hn.res.error # "none"

----------------------------------------------------------------------------
(* Claims about ODEnet, checked under SpecODEnet *)

\* C9: an ODEnet built from N hidden widths and input width D has N + 1
\* layers; layer 0 reads width D, every later layer reads what the layer
\* before it writes, layer i < N writes hidden_dims[i], the last layer
\* writes D; N nonlinearities are kept, and forward applies the layers in
\* order with one nonlinearity after every layer but the last.
C9_LayerChain ==
    LET N == Len(net.hidden_dims)
        layers == net.layers
        trace == net.res.trace
    IN  /\ net.phase \in {"built", "done"} =>
              /\ Len(layers) = N + 1
              /\ layers[1].in = net.D
              /\ \A i \in 2..(N + 1) : layers[i].in = layers[i - 1].out
              /\ \A i \in 1..N : layers[i].out = net.hidden_dims[i]
              /\ layers[N + 1].out = net.D
              /\ Len(net.acts) = N
        /\ (net.phase = "done" /\ net.yw = net.D) =>
              /\ net.res.error = "none"
              /\ net.res.dxw = net.D
              /\ Len(trace) = 2 * N + 1
              /\ \A l \in 0..N : trace[2 * l + 1] = [what |-> "layer", l |-> l]
              /\ \A l \in 0..(N - 1) : trace[2 * l + 2] = [what |-> "act", l |-> l]

\* C9 witness: a network with two hidden layers of different widths, called
C9_Witness ==
    /\ net.phase = "done"
    /\ net.yw = net.D
    /\ Len(net.hidden_dims) = 2
    /\ net.hidden_dims[1] # net.hidden_dims[2]
    /\ net.hidden_dims[2] # net.D
    /\ Len(net.res.trace) = 5

----------------------------------------------------------------------------
(* Claims about divergence_approx, checked under SpecDiv *)

DivDone == dv.pc \in {"returned", "raised"}

\* C10: divergence_approx always terminates; after the first gradient call
\* it repeats the call only while the product lacks gradient history, at
\* most 10 times; it returns once the product has gradient history, and
\* raises the assertion when it still lacks it after the 10th retry.
C10_BoundedRetry ==
    /\ <>DivDone
    /\ [](/\ dv.cnt <= MaxRetries
          /\ dv.pc \in {"loop", "returned"} => dv.grads = dv.cnt + 1
          /\ dv.pc = "returned" => dv.rg
          /\ dv.error = "AssertionError" =>
                dv.pc = "raised" /\ ~dv.rg /\ dv.cnt = MaxRetries)
    /\ [][ /\ (dv.grads >= 1 /\ dv'.grads > dv.grads) => (~dv.rg /\ dv.cnt < MaxRetries)
           /\ (dv.pc = "loop" /\ dv.rg) => dv'.pc = "returned" ]_vars

\* C10 witness: the product gained gradient history on the 10th retry
C10_Witness ==
    /\ dv.pc = "returned"
    /\ dv.cnt = MaxRetries
    /\ dv.grads = MaxRetries + 1

====
